---- MODULE Spec2Model ----
(***************************************************************************)
(* The list object of vm/src/obj/objlist.rs: index and slice resolution,   *)
(* slice assignment and deletion, the comparator-driven sort, the          *)
(* structural operations and the two iterators.                            *)
(*                                                                         *)
(* Conventions                                                             *)
(*  - A Vec<PyObjectRef> is a sequence; Rust position i is TLA+ index i+1. *)
(*  - Option<T> is a sequence of length 0 (None) or 1 (Some).              *)
(*  - A BigInt is a record [big, v]: big = 0 is the i32 value v; big = 1   *)
(*    is I32Max + v and big = -1 is I32Min - v (v >= 1), the values        *)
(*    to_i32() maps to None.                                               *)
(*  - Machine arithmetic wraps (the release profile): the two places where *)
(*    it can overflow, -p in get_pos and range.end - 1 in setslice, are    *)
(*    modelled by wrapping_neg and wrapping_sub. The subtraction of        *)
(*    PyListIterator::length_hint is modelled for both kinds of build.     *)
(*  - A call that gives a value has the result Returned(value) or          *)
(*    Raised(error); a panic is a Raised result as well.                   *)
(*  - The calls a callback of sort makes on the list being sorted are the  *)
(*    Callback actions; they act on the store left in place of the         *)
(*    detached one.                                                        *)
(***************************************************************************)
EXTENDS Integers, Sequences, FiniteSets, TLC

VARIABLES
    elements,   \* PyList.elements: the backing store
    call,       \* the call running or last completed: its name, its inputs, the store before it
    result,     \* what that call returned
    spc,        \* position of the running sort ("idle" when none runs)
    values,     \* sort: the detached store being sorted
    keys,       \* sort: the key table, parallel to values
    stack,      \* sort: the quicksort call stack, innermost frame last
    sopt,       \* sort: SortOptions of the running sort
    iter_position,      \* PyListIterator.position (None before iter() is called)
    reversed_position   \* PyListReverseIterator.position (None before reversed() is called)

vars == <<elements, call, result, spc, values, keys, stack, sopt,
          iter_position, reversed_position>>
sortvars == <<spc, values, keys, stack, sopt>>
itervars == <<iter_position, reversed_position>>

----------------------------------------------------------------------------
(* Bounds of the model *)

MaxLen == 3
MaxVal == 2
MaxStep == 2
MaxAdded == 2

Vals == 1..MaxVal

RECURSIVE SeqsUpTo(_, _)
SeqsUpTo(S, n) ==
    IF n = 0 THEN {<<>>}
    ELSE LET shorter == SeqsUpTo(S, n - 1)
         IN  shorter \cup {Append(s, x) : s \in {t \in shorter : Len(t) = n - 1}, x \in S}

Lists == SeqsUpTo(Vals, MaxLen)

----------------------------------------------------------------------------
(* Machine integers and BigInt *)

I32Max == 2147483647
I32Min == -I32Max - 1
\* usize::MAX. TLC's integers end at 2^31 - 1; the value is only ever
\* compared with positions, all far below it.
UsizeMax == 2147483647

None == <<>>
Some(x) == <<x>>

Big(n) == [big |-> 0, v |-> n]
PosHuge == [big |-> 1, v |-> 1]
NegHuge == [big |-> -1, v |-> 1]

to_i32(x) == IF x.big = 0 THEN Some(x.v) ELSE None
is_negative(x) == x.big = -1 \/ (x.big = 0 /\ x.v < 0)
is_positive(x) == x.big = 1 \/ (x.big = 0 /\ x.v > 0)
is_zero(x) == x.big = 0 /\ x.v = 0

\* x + 1 on BigInt
big_succ(x) ==
    CASE x.big = 0 -> IF x.v = I32Max THEN [big |-> 1, v |-> 1] ELSE Big(x.v + 1)
      [] x.big = 1 -> [big |-> 1, v |-> x.v + 1]
      [] OTHER -> IF x.v = 1 THEN Big(I32Min) ELSE [big |-> -1, v |-> x.v - 1]

\* -x on BigInt
big_neg(x) ==
    CASE x.big = 0 -> IF x.v = I32Min THEN [big |-> 1, v |-> 1] ELSE Big(-(x.v))
      [] x.big = 1 -> IF x.v = 1 THEN Big(I32Min) ELSE [big |-> -1, v |-> x.v - 1]
      [] OTHER -> [big |-> 1, v |-> x.v + 1]

\* -p on i32, wrapping: -(i32::MIN) is i32::MIN
wrapping_neg(p) == IF p = I32Min THEN I32Min ELSE -p

\* (x as usize) > n for an i32 x and a length n: a negative x casts to a value
\* of at least 2^63, above every length
as_usize_gt(x, n) == x < 0 \/ x > n

\* a - b on usize, wrapping
wrapping_sub(a, b) == IF a >= b THEN a - b ELSE UsizeMax - (b - a) + 1

----------------------------------------------------------------------------
(* Index and slice resolution *)

get_pos_no_upper_check(len, p) ==
    IF p < 0
    THEN IF as_usize_gt(wrapping_neg(p), len) THEN None ELSE Some(len - wrapping_neg(p))
    ELSE Some(p)

get_pos(len, p) ==
    IF p < 0
    THEN IF as_usize_gt(wrapping_neg(p), len)
         THEN None
         ELSE Some(len - wrapping_neg(p))
    ELSE IF p >= len THEN None ELSE Some(p)

get_slice_pos_round_to_start(len, slice_pos) ==
    LET pos == to_i32(slice_pos)
        index == IF pos # None THEN get_pos(len, pos[1]) ELSE None
    IN  IF index # None THEN index[1] ELSE 0

get_slice_pos(len, slice_pos) ==
    LET pos == to_i32(slice_pos)
        index == IF pos # None THEN get_pos(len, pos[1]) ELSE None
    IN  IF index # None THEN index[1]
        ELSE IF is_negative(slice_pos) THEN 0 ELSE len

Range(s, e) == [start |-> s, end |-> e]

get_slice_range_stop_default_zero(len, start, stop) ==
    Range(IF start # None THEN get_slice_pos(len, start[1]) ELSE 0,
          IF stop # None THEN get_slice_pos(len, stop[1]) ELSE 0)

get_slice_range(len, start, stop) ==
    Range(IF start # None THEN get_slice_pos(len, start[1]) ELSE 0,
          IF stop # None THEN get_slice_pos(len, stop[1]) ELSE len)

----------------------------------------------------------------------------
(* Outcomes *)

Ok == "ok"
ZeroStepError == "ValueError: slice step cannot be zero"
SizeMismatchError == "ValueError: attempt to assign sequence to extended slice of another size"
SourceError == "error raised by the replacement source"

\* What a call that gives a value returns: the value, or the error it raised
Returned(x) == [ok |-> TRUE, val |-> x]
Raised(err) == [ok |-> FALSE, val |-> err]

Out(els, res) == [els |-> els, res |-> res]

\* A replacement source: the items it yields and whether it then raises
\* instead of finishing.
Source(items, fails) == [items |-> items, fails |-> fails]

----------------------------------------------------------------------------
(* Slice assignment *)

splice_keeping_range(els, range, items) ==
    SubSeq(els, 1, range.start) \o items \o SubSeq(els, range.start + 1, Len(els))

\* Vec::splice(range, items)
splice(els, range, items) ==
    SubSeq(els, 1, range.start) \o items \o SubSeq(els, range.end + 1, Len(els))

\* Range::step_by(step): start, start + step, ... below end
RECURSIVE step_by(_, _)
step_by(range, step) ==
    IF range.start >= range.end THEN <<>>
    ELSE <<range.start>> \o step_by(Range(range.start + step, range.end), step)

\* Range::rev().step_by(step): end - 1, end - 1 - step, ... not below start
RECURSIVE rev_step_by(_, _)
rev_step_by(range, step) ==
    IF range.start >= range.end THEN <<>>
    ELSE IF range.end - step <= range.start THEN <<range.end - 1>>
    ELSE <<range.end - 1>> \o rev_step_by(Range(range.start, range.end - step), step)

RECURSIVE replace_loop(_, _, _, _)
replace_loop(els, indexes, items, k) ==
    IF k > Len(indexes) \/ k > Len(items) THEN els
    ELSE replace_loop([els EXCEPT ![indexes[k] + 1] = items[k]], indexes, items, k + 1)

_replace_indexes(els, indexes, items) == replace_loop(els, indexes, items, 1)

set_slice_write_then_fail(els, range, sec) ==
    IF sec.fails THEN Out(splice(els, range, sec.items), SourceError)
    ELSE Out(splice(els, range, sec.items), Ok)

_set_slice(els, range, sec) ==
    IF sec.fails THEN Out(els, SourceError)
    ELSE Out(splice(els, range, sec.items), Ok)

slicelen(range, step) ==
    IF range.end > range.start
    THEN ((range.end - range.start - 1) \div step) + 1
    ELSE 0

set_stepped_slice_unchecked(els, range, step, sec) ==
    IF sec.fails THEN Out(els, SourceError)
    ELSE Out(_replace_indexes(els, step_by(range, step), sec.items), Ok)

_set_stepped_slice(els, range, step, sec) ==
    LET len == slicelen(range, step)
    IN  IF sec.fails THEN Out(els, SourceError)
        ELSE LET n == Len(sec.items)
             IN  IF range.start < range.end
                 THEN IF n = len
                      THEN Out(_replace_indexes(els, step_by(range, step), sec.items), Ok)
                      ELSE Out(els, SizeMismatchError)
                 ELSE IF n = 0 THEN Out(els, Ok)
                 ELSE Out(els, SizeMismatchError)

_set_stepped_slice_reverse(els, range, step, sec) ==
    LET len == slicelen(range, step)
    IN  IF sec.fails THEN Out(els, SourceError)
        ELSE LET n == Len(sec.items)
             IN  IF range.start < range.end
                 THEN IF n = len
                      THEN Out(_replace_indexes(els, rev_step_by(range, step), sec.items), Ok)
                      ELSE Out(els, SizeMismatchError)
                 ELSE IF n = 0 THEN Out(els, Ok)
                 ELSE Out(els, SizeMismatchError)

\* The bounds of a reverse slice, made exclusive around the lower one
\* (setslice, lines 317-331): the range is get_slice_range(stop, start) of these.
reverse_start(len, start) ==
    IF start = None THEN None
    ELSE IF start[1] = Big(-1) THEN Some(Big(len + 1)) ELSE Some(big_succ(start[1]))

reverse_stop(len, stop) ==
    IF stop = None THEN None
    ELSE IF stop[1] = Big(-1) THEN Some(Big(len)) ELSE Some(big_succ(stop[1]))

\* The range setslice resolves from the slice, before it looks at the
\* magnitude of the step.
setslice_range(len, start, stop, step) ==
    IF is_positive(step) THEN get_slice_range(len, start, stop)
    ELSE get_slice_range(len, reverse_stop(len, stop), reverse_start(len, start))

setslice(els, start, stop, stepopt, sec) ==
    LET step == IF stepopt = None THEN Big(1) ELSE stepopt[1]
        len == Len(els)
        range == setslice_range(len, start, stop, step)
    IN  IF is_zero(step) THEN Out(els, ZeroStepError)
        ELSE IF is_positive(step)
        THEN IF range.start < range.end
             THEN LET num == to_i32(step)
                  IN  IF num = Some(1) THEN _set_slice(els, range, sec)
                      ELSE IF num # None THEN _set_stepped_slice(els, range, num[1], sec)
                      ELSE _set_stepped_slice(els, Range(range.start, range.start + 1), 1, sec)
             ELSE _set_slice(els, Range(range.start, range.start), sec)
        ELSE LET num == to_i32(big_neg(step))
             IN  IF num # None THEN _set_stepped_slice_reverse(els, range, num[1], sec)
                 ELSE _set_stepped_slice_reverse(
                          els, Range(wrapping_sub(range.end, 1), range.end), 1, sec)

----------------------------------------------------------------------------
(* Slice deletion *)

\* Vec::drain(range), dropped at once
drain(els, range) ==
    SubSeq(els, 1, range.start) \o SubSeq(els, range.end + 1, Len(els))

\* slice::swap(a, b)
swap(els, a, b) == [els EXCEPT ![a + 1] = els[b + 1], ![b + 1] = els[a + 1]]

_del_slice(els, range) == drain(els, range)

\* The loop of _del_stepped_slice at position i: indexes is what is left of
\* the peekable iterator, deleted the count so far
RECURSIVE del_stepped_loop(_, _, _, _, _)
del_stepped_loop(els, i, end, indexes, deleted) ==
    IF i >= end THEN [els |-> els, deleted |-> deleted]
    ELSE IF indexes # <<>> /\ Head(indexes) = i
    THEN del_stepped_loop(els, i + 1, end, Tail(indexes), deleted + 1)
    ELSE del_stepped_loop(swap(els, i - deleted, i), i + 1, end, indexes, deleted)

del_stepped_slice_without_swaps(els, range, step) ==
    drain(els, Range(range.end - slicelen(range, step), range.end))

_del_stepped_slice(els, range, step) ==
    LET done == del_stepped_loop(els, range.start, range.end, step_by(range, step), 0)
    IN  drain(done.els, Range(range.end - done.deleted, range.end))

\* The loop of _del_stepped_slice_reverse, i running from end - 1 down to start
RECURSIVE del_stepped_reverse_loop(_, _, _, _, _)
del_stepped_reverse_loop(els, i, start, indexes, deleted) ==
    IF i < start THEN [els |-> els, deleted |-> deleted]
    ELSE IF indexes # <<>> /\ Head(indexes) = i
    THEN del_stepped_reverse_loop(els, i - 1, start, Tail(indexes), deleted + 1)
    ELSE del_stepped_reverse_loop(swap(els, i + deleted, i), i - 1, start, indexes, deleted)

_del_stepped_slice_reverse(els, range, step) ==
    LET done == del_stepped_reverse_loop(els, range.end - 1, range.start,
                                         rev_step_by(range, step), 0)
    IN  drain(done.els, Range(range.start, range.start + done.deleted))

\* The range delslice resolves from the slice (lines 642 and 666-680)
delslice_range(len, start, stop, step) ==
    IF is_positive(step) THEN get_slice_range(len, start, stop)
    ELSE get_slice_range(len, reverse_stop(len, stop), reverse_start(len, start))

delslice_zero_step_as_one(els, start, stop, stepopt) ==
    LET step == IF stepopt = None \/ is_zero(stepopt[1]) THEN Big(1) ELSE stepopt[1]
        range == delslice_range(Len(els), start, stop, step)
    IN  IF is_zero(step) THEN Out(els, ZeroStepError)
        ELSE IF range.start < range.end
        THEN IF is_positive(step)
             THEN LET num == to_i32(step)
                  IN  IF num = Some(1) THEN Out(_del_slice(els, range), Ok)
                      ELSE IF num # None THEN Out(_del_stepped_slice(els, range, num[1]), Ok)
                      ELSE Out(_del_slice(els, Range(range.start, range.start + 1)), Ok)
             ELSE LET num == to_i32(big_neg(step))
                  IN  IF num = Some(1) THEN Out(_del_slice(els, range), Ok)
                      ELSE IF num # None
                      THEN Out(_del_stepped_slice_reverse(els, range, num[1]), Ok)
                      ELSE Out(_del_slice(els, Range(range.end - 1, range.end)), Ok)
        ELSE Out(els, Ok)

delslice(els, start, stop, stepopt) ==
    LET step == IF stepopt = None THEN Big(1) ELSE stepopt[1]
        range == delslice_range(Len(els), start, stop, step)
    IN  IF is_zero(step) THEN Out(els, ZeroStepError)
        ELSE IF range.start < range.end
        THEN IF is_positive(step)
             THEN LET num == to_i32(step)
                  IN  IF num = Some(1) THEN Out(_del_slice(els, range), Ok)
                      ELSE IF num # None THEN Out(_del_stepped_slice(els, range, num[1]), Ok)
                      ELSE Out(_del_slice(els, Range(range.start, range.start + 1)), Ok)
             ELSE LET num == to_i32(big_neg(step))
                  IN  IF num = Some(1) THEN Out(_del_slice(els, range), Ok)
                      ELSE IF num # None
                      THEN Out(_del_stepped_slice_reverse(els, range, num[1]), Ok)
                      ELSE Out(_del_slice(els, Range(range.end - 1, range.end)), Ok)
        ELSE Out(els, Ok)

----------------------------------------------------------------------------
(* Structural operations: append, extend, insert, clear, pop *)

PopEmptyError == "IndexError: pop from empty list"
PopRangeError == "IndexError: pop index out of range"

\* Ord::max and Ord::min on isize
isize_max(a, b) == IF a >= b THEN a ELSE b
isize_min(a, b) == IF a <= b THEN a ELSE b

\* Vec::insert and Vec::remove at a position counted from 0
vec_insert(els, index, element) ==
    SubSeq(els, 1, index) \o <<element>> \o SubSeq(els, index + 1, Len(els))
vec_remove(els, index) ==
    SubSeq(els, 1, index) \o SubSeq(els, index + 2, Len(els))

\* PyList::append
append(els, x) == Append(els, x)

\* PyList::extend: the source is read to its end before the store is touched,
\* and a failure of the source returns before the store is touched
extend(els, sec) ==
    IF sec.fails THEN Out(els, SourceError) ELSE Out(els \o sec.items, Ok)

insert_negative_at_front(els, position, element) ==
    vec_insert(els, isize_min(isize_max(position, 0), Len(els)), element)

\* PyList::insert
insert(els, position, element) ==
    LET vec_len == Len(els)
        unbounded_position == IF position < 0 THEN vec_len + position ELSE position
    IN  vec_insert(els, isize_min(isize_max(unbounded_position, 0), vec_len), element)

\* PyList::clear
clear(els) == <<>>

pop_first_by_default(els, i) ==
    LET given == IF i = None THEN 0 ELSE i[1]
        at == IF given < 0 THEN given + Len(els) ELSE given
    IN  IF els = <<>> THEN Out(els, Raised(PopEmptyError))
        ELSE IF at < 0 \/ at >= Len(els) THEN Out(els, Raised(PopRangeError))
        ELSE Out(vec_remove(els, at), Returned(els[at + 1]))

\* PyList::pop
pop(els, i) ==
    LET given == IF i = None THEN -1 ELSE i[1]
        at == IF given < 0 THEN given + Len(els) ELSE given
    IN  IF els = <<>> THEN Out(els, Raised(PopEmptyError))
        ELSE IF at < 0 \/ at >= Len(els) THEN Out(els, Raised(PopRangeError))
        ELSE Out(vec_remove(els, at), Returned(els[at + 1]))

NotInListError == "ValueError: needle is not in list"

\* vm.identical_or_equal on the elements of the model, which are integers
identical_or_equal(element, needle) == element = needle

\* The loop of PyList::index and of PyList::remove: the position of the first
\* element, from position i on, that identical_or_equal finds, if any
RECURSIVE find(_, _, _)
find(els, needle, i) ==
    IF i >= Len(els) THEN None
    ELSE IF identical_or_equal(els[i + 1], needle) THEN Some(i)
    ELSE find(els, needle, i + 1)

\* PyList::index
index_of(els, needle) ==
    LET found == find(els, needle, 0)
    IN  IF found # None THEN Returned(found[1]) ELSE Raised(NotInListError)

RECURSIVE find_last(_, _, _)
find_last(els, needle, i) ==
    IF i < 0 THEN None
    ELSE IF identical_or_equal(els[i + 1], needle) THEN Some(i)
    ELSE find_last(els, needle, i - 1)

remove_last_found(els, needle) ==
    LET ri == find_last(els, needle, Len(els) - 1)
    IN  IF ri # None THEN Out(vec_remove(els, ri[1]), Ok)
        ELSE Out(els, NotInListError)

\* PyList::remove
remove(els, needle) ==
    LET ri == find(els, needle, 0)
    IN  IF ri # None THEN Out(vec_remove(els, ri[1]), Ok)
        ELSE Out(els, NotInListError)

DelIndexError == "IndexError: Index out of bounds!"
SetIndexError == "IndexError: list assignment index out of range"

setindex_without_negative(els, index, value) ==
    IF 0 <= index /\ index < Len(els) THEN Out([els EXCEPT ![index + 1] = value], Ok)
    ELSE Out(els, SetIndexError)

\* PyList::setindex
setindex(els, index, value) ==
    LET pos_index == get_pos(Len(els), index)
    IN  IF pos_index # None THEN Out([els EXCEPT ![pos_index[1] + 1] = value], Ok)
        ELSE Out(els, SetIndexError)

\* PyList::delindex
delindex(els, index) ==
    LET pos_index == get_pos(Len(els), index)
    IN  IF pos_index # None THEN Out(vec_remove(els, pos_index[1]), Ok)
        ELSE Out(els, DelIndexError)

----------------------------------------------------------------------------
(* Iterators: PyListIterator and PyListReverseIterator *)

StopIteration == "StopIteration"
IndexPanic == "panic: index out of bounds"
OverflowPanic == "panic: attempt to subtract with overflow"

\* What a step gives: its result, and the position the iterator then holds
Step(res, position) == [res |-> res, position |-> position]

iter_next_advancing_at_end(els, pos) ==
    IF pos < Len(els) THEN Step(Returned(els[pos + 1]), pos + 1)
    ELSE Step(Raised(StopIteration), pos + 1)

\* PyListIterator::next: list.get(pos) is Some below the length of the store
\* as it is now
iter_next(els, pos) ==
    IF pos < Len(els) THEN Step(Returned(els[pos + 1]), pos + 1)
    ELSE Step(Raised(StopIteration), pos)

\* PyListIterator::length_hint: list.len() - pos on usize. Below zero the
\* subtraction panics in a build with overflow checks and wraps in one without.
iter_length_hint(els, pos, overflow_checks) ==
    IF Len(els) >= pos THEN Returned(Len(els) - pos)
    ELSE IF overflow_checks THEN Raised(OverflowPanic)
    ELSE Returned(wrapping_sub(Len(els), pos))

\* PyListReverseIterator::next: list[pos] panics at or past the length of the
\* store as it is now, before the position is stored
reversed_next(els, position) ==
    IF position > 0
    THEN LET pos == position - 1
         IN  IF pos < Len(els) THEN Step(Returned(els[pos + 1]), pos)
             ELSE Step(Raised(IndexPanic), position)
    ELSE Step(Raised(StopIteration), position)

\* PyListReverseIterator::length_hint
reversed_length_hint(els, position) == Returned(position)

----------------------------------------------------------------------------
(* Slice assignment with a source whose consumption calls back into the list:
   setslice resolves the range, the helper it calls consumes the source, and
   only then the store, as it is by then, is written *)

SplicePanic == "panic: range end index out of range"

\* The helper setslice calls and the range and step it passes (lines 289-341)
setslice_target(len, start, stop, stepopt) ==
    LET step == IF stepopt = None THEN Big(1) ELSE stepopt[1]
        range == setslice_range(len, start, stop, step)
    IN  IF is_zero(step) THEN [fn |-> "none", range |-> range, step |-> 0]
        ELSE IF is_positive(step)
        THEN IF range.start < range.end
             THEN LET num == to_i32(step)
                  IN  IF num = Some(1) THEN [fn |-> "_set_slice", range |-> range, step |-> 1]
                      ELSE IF num # None THEN [fn |-> "_set_stepped_slice", range |-> range, step |-> num[1]]
                      ELSE [fn |-> "_set_stepped_slice", range |-> Range(range.start, range.start + 1), step |-> 1]
             ELSE [fn |-> "_set_slice", range |-> Range(range.start, range.start), step |-> 1]
        ELSE LET num == to_i32(big_neg(step))
             IN  IF num # None THEN [fn |-> "_set_stepped_slice_reverse", range |-> range, step |-> num[1]]
                 ELSE [fn |-> "_set_stepped_slice_reverse", range |-> Range(wrapping_sub(range.end, 1), range.end), step |-> 1]

\* The positions the helper goes on to write, once the source gave items with
\* no failure and of the right number: the range for a splice, the indexes
\* of _replace_indexes as far as there are items
target_indexes(t, items) ==
    IF t.fn = "_set_slice" THEN <<>>
    ELSE IF t.range.start >= t.range.end \/ Len(items) # slicelen(t.range, t.step) THEN <<>>
    ELSE IF t.fn = "_set_stepped_slice" THEN step_by(t.range, t.step)
    ELSE rev_step_by(t.range, t.step)

\* _replace_indexes on the store as it is: elements[i] panics at the first
\* index at or past its length, with the writes before it done
RECURSIVE replace_checked(_, _, _, _)
replace_checked(now, indexes, items, k) ==
    IF k > Len(indexes) \/ k > Len(items) THEN Out(now, Ok)
    ELSE IF indexes[k] >= Len(now) THEN Out(now, IndexPanic)
    ELSE replace_checked([now EXCEPT ![indexes[k] + 1] = items[k]], indexes, items, k + 1)

\* _set_slice, _set_stepped_slice and _set_stepped_slice_reverse from the
\* point where the source was consumed, on the store as it is then.
\* Vec::splice panics on a range that ends past the length of the store.
set_target(now, t, sec) ==
    IF sec.fails THEN Out(now, SourceError)
    ELSE IF t.fn = "_set_slice"
    THEN IF t.range.end > Len(now) THEN Out(now, SplicePanic)
         ELSE Out(splice(now, t.range, sec.items), Ok)
    ELSE LET n == Len(sec.items)
         IN  IF t.range.start < t.range.end
             THEN IF n = slicelen(t.range, t.step)
                  THEN replace_checked(now, target_indexes(t, sec.items), sec.items, 1)
                  ELSE Out(now, SizeMismatchError)
             ELSE IF n = 0 THEN Out(now, Ok)
             ELSE Out(now, SizeMismatchError)

----------------------------------------------------------------------------
(* String slices: impl PySliceableSequence for String in vm/src/obj/objstr.rs.
   A string is the sequence of its chars; a char is drawn from Vals. *)

\* Iterator::skip, Iterator::take, Iterator::rev and Iterator::step_by on chars()
skip(s, n) == IF n >= Len(s) THEN <<>> ELSE SubSeq(s, n + 1, Len(s))
take(s, n) == IF n >= Len(s) THEN s ELSE SubSeq(s, 1, n)
chars_rev(s) == [k \in 1..Len(s) |-> s[Len(s) + 1 - k]]
iter_step_by(s, step) == [k \in 1..((Len(s) + step - 1) \div step) |-> s[(k - 1) * step + 1]]

\* String::do_slice. range.end - range.start is a subtraction on usize: below
\* zero it panics in a build with overflow checks and wraps in one without.
do_slice(s, range, overflow_checks) ==
    IF range.end < range.start /\ overflow_checks THEN Raised(OverflowPanic)
    ELSE Returned(take(skip(s, range.start), wrapping_sub(range.end, range.start)))

\* String::do_slice_reverse
do_slice_reverse(s, range, overflow_checks) ==
    LET count == Len(s)
    IN  IF (count < range.end \/ range.end < range.start) /\ overflow_checks
        THEN Raised(OverflowPanic)
        ELSE Returned(take(skip(chars_rev(s), wrapping_sub(count, range.end)),
                           wrapping_sub(range.end, range.start)))

\* String::do_stepped_slice. step_by(0) panics, after the arguments of skip
\* and take were computed.
do_stepped_slice(s, range, step, overflow_checks) ==
    IF range.end < range.start /\ overflow_checks THEN Raised(OverflowPanic)
    ELSE IF step = 0 THEN Raised("panic: assertion failed: step != 0")
    ELSE Returned(iter_step_by(take(skip(s, range.start),
                                    wrapping_sub(range.end, range.start)), step))

do_stepped_slice_reverse_from_back(s, range, step, overflow_checks) ==
    LET count == Len(s)
    IN  IF (count < range.end \/ range.end < range.start) /\ overflow_checks
        THEN Raised(OverflowPanic)
        ELSE IF step = 0 THEN Raised("panic: assertion failed: step != 0")
        ELSE Returned(iter_step_by(take(chars_rev(s), wrapping_sub(range.end, range.start)), step))

\* String::do_stepped_slice_reverse
do_stepped_slice_reverse(s, range, step, overflow_checks) ==
    LET count == Len(s)
    IN  IF (count < range.end \/ range.end < range.start) /\ overflow_checks
        THEN Raised(OverflowPanic)
        ELSE IF step = 0 THEN Raised("panic: assertion failed: step != 0")
        ELSE Returned(iter_step_by(take(skip(chars_rev(s), wrapping_sub(count, range.end)),
                                        wrapping_sub(range.end, range.start)), step))

----------------------------------------------------------------------------
(* Sort: do_sort, quicksort and partition as steps between callbacks *)

ModifiedError == "ValueError: list modified during sort"
KeyFuncError == "the key function raised"
LtError == "the less-than callback raised"
Pending == "pending"

\* A quicksort call on the window [lo, hi) of keys and values. at is where the
\* call stands: "enter", "loop" (in partition's loop, at position i with
\* store_idx store), "left" and "right" (in the first and the second recursive
\* call). Positions are those of the whole vector.
Frame(lo, hi) == [lo |-> lo, hi |-> hi, at |-> "enter", i |-> lo, store |-> lo]

Top == stack[Len(stack)]
Pop == SubSeq(stack, 1, Len(stack) - 1)
ReplaceTop(f) == [stack EXCEPT ![Len(stack)] = f]

\* The key function's result on x
invoke(func, x) == func[x]

next_key_from_back(func, vals, ks) == invoke(func, vals[Len(vals) - Len(ks)])

\* do_sort, lines 830-835: values.iter() gives the elements in their order,
\* and the key of each is pushed in turn
next_key(func, vals, ks) == invoke(func, vals[Len(ks) + 1])

\* vm._lt on two keys, for elements whose __lt__ is the order of the integers
lt(a, b) == a < b

\* Vec::reverse
reverse(els) == [k \in 1..Len(els) |-> els[Len(els) + 1 - k]]

\* partition, lines 800-806: the pivot, the middle element, goes last
partition_begin(seq, f) == swap(seq, f.lo + (f.hi - f.lo) \div 2, f.hi - 1)

partition_keep_overwriting(seq, f, below) ==
    IF below THEN [seq EXCEPT ![f.store + 1] = seq[f.i + 1]] ELSE seq

\* partition, lines 810-814: an element below the pivot goes to store_idx
partition_keep(seq, f, below) == IF below THEN swap(seq, f.i, f.store) ELSE seq

partition_end_pivot_left_last(seq, f) == seq

\* partition, lines 817-818: the pivot goes to store_idx
partition_end(seq, f) == swap(seq, f.store, f.hi - 1)

right_window_from_pivot(f) == Frame(f.store, f.hi)

\* quicksort, line 790: the recursive call on the window after the pivot
right_window(f) == Frame(f.store + 1, f.hi)

\* do_sort, lines 839-841
do_sort_end(vals, rev) == IF rev THEN reverse(vals) ELSE vals

sort_abort_reattaching(temp_elements, detached) == detached

\* PyList::sort, line 755: a failure inside do_sort returns at once; the list
\* keeps the store it was given for the duration of the sort, and the
\* detached store is dropped
sort_abort(temp_elements, detached) == temp_elements

sort_reattach_keeping_added(temp_elements, sorted) == temp_elements \o sorted

\* PyList::sort, line 756: the sorted store replaces the temporary one
sort_reattach(temp_elements, sorted) == sorted

\* PyList::sort, lines 758-762: the temporary store must be empty
sort_check(temp_elements) == IF temp_elements # <<>> THEN ModifiedError ELSE Ok

----------------------------------------------------------------------------
(* Inputs *)

\* Scalar indexes: every position of the longest list, two past either end,
\* and the ends of the i32 range
RawIndexes == (-(MaxLen + 2))..(MaxLen + 2) \cup {I32Min, I32Max}

\* Slice bounds handed to the resolver: the same, and values outside i32
RawBounds == {Big(n) : n \in RawIndexes} \cup {PosHuge, NegHuge}
OptBounds == {None} \cup {Some(b) : b \in RawBounds}

\* Slice descriptors of setitem and delitem
SliceBounds ==
    {None} \cup {Some(Big(n)) : n \in (-(MaxLen + 1))..(MaxLen + 1)}
           \cup {Some(PosHuge), Some(NegHuge)}
SliceSteps ==
    {None, Some(Big(0)), Some(PosHuge), Some(NegHuge)}
        \cup {Some(Big(s)) : s \in 1..MaxStep} \cup {Some(Big(-s)) : s \in 1..MaxStep}

\* What a callback of sort puts into the list: an element of its own, at one
\* of these positions
CallbackVals == {0}
CallbackIndexes == {-1, 0, 1}
CallbackSources ==
    {Source([i \in 1..k |-> 0], fails) : k \in 0..MaxAdded, fails \in BOOLEAN}

\* Key functions of sort: the reversed order, and the parity, of every
\* element a list can come to hold
KeyFuncs ==
    {[v \in Vals \cup CallbackVals |-> MaxVal + 1 - v],
     [v \in Vals \cup CallbackVals |-> v % 2]}
SortKeys == {None} \cup {Some(f) : f \in KeyFuncs}
\* The elements' __lt__: the order of the integers, or a callback that
\* answers as it likes
LtKinds == {"order", "any"}

\* Replacement sources: k items 1, 2, ..., then the end; or a failure after
\* none or one item
Items(k) == [i \in 1..k |-> ((i - 1) % MaxVal) + 1]
Sources ==
    {Source(Items(k), FALSE) : k \in 0..MaxLen} \cup {Source(Items(k), TRUE) : k \in 0..1}

----------------------------------------------------------------------------
(* State machine *)

NoCall == [op |-> "none"]
NoSort == [key |-> None, reverse |-> FALSE, lt |-> "order"]

Init ==
    /\ elements \in Lists
    /\ call = NoCall
    /\ result = Ok
    /\ spc = "idle"
    /\ values = <<>>
    /\ keys = <<>>
    /\ stack = <<>>
    /\ sopt = NoSort
    /\ iter_position = None
    /\ reversed_position = None

\* No call is running: the last one has been returned from
Idle == call = NoCall /\ spc = "idle"

\* The caller takes the result of the last call; the list is ready for the next
Return ==
    /\ call # NoCall
    /\ spc = "idle"
    /\ call' = NoCall
    /\ result' = Ok
    /\ UNCHANGED <<elements, sortvars>>
    /\ UNCHANGED itervars

GetPos(p) ==
    /\ Idle
    /\ call' = [op |-> "get_pos", p |-> p]
    /\ result' = get_pos(Len(elements), p)
    /\ UNCHANGED <<elements, sortvars>>
    /\ UNCHANGED itervars

GetSlicePos(b) ==
    /\ Idle
    /\ call' = [op |-> "get_slice_pos", b |-> b]
    /\ result' = get_slice_pos(Len(elements), b)
    /\ UNCHANGED <<elements, sortvars>>
    /\ UNCHANGED itervars

GetSliceRange(start, stop) ==
    /\ Idle
    /\ call' = [op |-> "get_slice_range", start |-> start, stop |-> stop]
    /\ result' = get_slice_range(Len(elements), start, stop)
    /\ UNCHANGED <<elements, sortvars>>
    /\ UNCHANGED itervars

SetSlice(start, stop, step, sec) ==
    /\ Idle
    /\ \E out \in {setslice(elements, start, stop, step, sec)} :
           /\ Len(out.els) <= MaxLen
           /\ elements' = out.els
           /\ result' = out.res
           /\ call' = [op |-> "setslice", old |-> elements, sec |-> sec,
                       bounds |-> IF step # None /\ is_negative(step[1])
                                  THEN <<start, stop>> ELSE <<>>,
                       step |-> IF step = None THEN Big(1) ELSE step[1],
                       range |-> setslice_range(Len(elements), start, stop,
                                                IF step = None THEN Big(1) ELSE step[1])]
    /\ UNCHANGED sortvars
    /\ UNCHANGED itervars

DelSlice(start, stop, step) ==
    /\ Idle
    /\ \E out \in {delslice(elements, start, stop, step)} :
           /\ elements' = out.els
           /\ result' = out.res
           /\ call' = [op |-> "delslice", old |-> elements, start |-> start, stop |-> stop,
                       step |-> IF step = None THEN Big(1) ELSE step[1],
                       range |-> delslice_range(Len(elements), start, stop,
                                                IF step = None THEN Big(1) ELSE step[1])]
    /\ UNCHANGED sortvars
    /\ UNCHANGED itervars

\* PyList::sort, line 754: the store is detached and an empty one put in
\* its place
SortBegin(key, rev, ltkind) ==
    /\ Idle
    /\ elements' = <<>>
    /\ values' = elements
    /\ keys' = <<>>
    /\ stack' = <<>>
    /\ sopt' = [key |-> key, reverse |-> rev, lt |-> ltkind]
    /\ spc' = "keys"
    /\ call' = [op |-> "sort", old |-> elements, key |-> key, reverse |-> rev,
                lt |-> ltkind, touched |-> FALSE, compared |-> FALSE]
    /\ result' = Pending
    /\ UNCHANGED itervars

\* do_sort, lines 830-835 without a key function: the keys are the elements
KeysCopy ==
    /\ spc = "keys"
    /\ sopt.key = None
    /\ keys' = values
    /\ spc' = "sort"
    /\ UNCHANGED <<elements, call, result, values, stack, sopt>>
    /\ UNCHANGED itervars

\* do_sort, lines 830-835 with a key function: one call of it
KeyCall ==
    /\ spc = "keys"
    /\ sopt.key # None
    /\ Len(keys) < Len(values)
    /\ keys' = Append(keys, next_key(sopt.key[1], values, keys))
    /\ UNCHANGED <<elements, call, result, spc, values, stack, sopt>>
    /\ UNCHANGED itervars

KeysDone ==
    /\ spc = "keys"
    /\ sopt.key # None
    /\ Len(keys) = Len(values)
    /\ spc' = "sort"
    /\ UNCHANGED <<elements, call, result, values, keys, stack, sopt>>
    /\ UNCHANGED itervars

\* do_sort, line 837: the outermost quicksort call
Quicksort ==
    /\ spc = "sort"
    /\ stack' = <<Frame(0, Len(values))>>
    /\ spc' = "quicksort"
    /\ UNCHANGED <<elements, call, result, values, keys, sopt>>
    /\ UNCHANGED itervars

\* quicksort, lines 786-788: a window of two or more elements is partitioned
PartitionBegin ==
    /\ spc = "quicksort" /\ stack # <<>>
    /\ Top.at = "enter"
    /\ Top.hi - Top.lo >= 2
    /\ values' = partition_begin(values, Top)
    /\ keys' = partition_begin(keys, Top)
    /\ stack' = ReplaceTop([Top EXCEPT !.at = "loop"])
    /\ UNCHANGED <<elements, call, result, spc, sopt>>
    /\ UNCHANGED itervars

\* partition, lines 807-815: one comparison with the pivot
Compare(below) ==
    /\ spc = "quicksort" /\ stack # <<>>
    /\ Top.at = "loop"
    /\ Top.i < Top.hi - 1
    /\ sopt.lt = "order" => below = lt(keys[Top.i + 1], keys[Top.hi])
    /\ values' = partition_keep(values, Top, below)
    /\ keys' = partition_keep(keys, Top, below)
    /\ stack' = ReplaceTop([Top EXCEPT !.i = @ + 1,
                                       !.store = IF below THEN @ + 1 ELSE @])
    /\ call' = [call EXCEPT !.compared = TRUE]
    /\ UNCHANGED <<elements, result, spc, sopt>>
    /\ UNCHANGED itervars

\* partition, lines 817-819, and quicksort, line 789: the pivot is placed and
\* the window before it sorted
PartitionEnd ==
    /\ spc = "quicksort" /\ stack # <<>>
    /\ Top.at = "loop"
    /\ Top.i = Top.hi - 1
    /\ values' = partition_end(values, Top)
    /\ keys' = partition_end(keys, Top)
    /\ stack' = Append(ReplaceTop([Top EXCEPT !.at = "left"]), Frame(Top.lo, Top.store))
    /\ UNCHANGED <<elements, call, result, spc, sopt>>
    /\ UNCHANGED itervars

\* quicksort, line 790: the window after the pivot is sorted
SortRight ==
    /\ spc = "quicksort" /\ stack # <<>>
    /\ Top.at = "left"
    /\ stack' = Append(ReplaceTop([Top EXCEPT !.at = "right"]), right_window(Top))
    /\ UNCHANGED <<elements, call, result, spc, values, keys, sopt>>
    /\ UNCHANGED itervars

\* quicksort, line 792: the call returns, at once for a window of fewer than
\* two elements
QuicksortReturn ==
    /\ spc = "quicksort" /\ stack # <<>>
    /\ \/ Top.at = "right"
       \/ Top.at = "enter" /\ Top.hi - Top.lo < 2
    /\ stack' = Pop
    /\ UNCHANGED <<elements, call, result, spc, values, keys, sopt>>
    /\ UNCHANGED itervars

\* do_sort, lines 839-843, and PyList::sort, lines 756-762: the sorted store
\* is put back, and what the list held meanwhile decides the result
SortEnd ==
    /\ spc = "quicksort" /\ stack = <<>>
    /\ elements' = sort_reattach(elements, do_sort_end(values, sopt.reverse))
    /\ result' = sort_check(elements)
    /\ spc' = "idle"
    /\ values' = <<>>
    /\ keys' = <<>>
    /\ sopt' = NoSort
    /\ UNCHANGED <<call, stack>>
    /\ UNCHANGED itervars

\* do_sort, line 833: the key function fails on the element it is given, and
\* PyList::sort returns the failure from line 755
KeyFail ==
    /\ spc = "keys"
    /\ sopt.key # None
    /\ Len(keys) < Len(values)
    /\ elements' = sort_abort(elements, values)
    /\ result' = KeyFuncError
    /\ spc' = "idle"
    /\ values' = <<>>
    /\ keys' = <<>>
    /\ sopt' = NoSort
    /\ UNCHANGED <<call, stack>>
    /\ UNCHANGED itervars

\* partition, lines 808-809: the less-than callback, or the truth value of
\* its answer, fails; every quicksort call returns the failure, and so does
\* PyList::sort from line 755
LtFail ==
    /\ spc = "quicksort" /\ stack # <<>>
    /\ Top.at = "loop"
    /\ Top.i < Top.hi - 1
    /\ sopt.lt = "any"
    /\ elements' = sort_abort(elements, values)
    /\ result' = LtError
    /\ spc' = "idle"
    /\ values' = <<>>
    /\ keys' = <<>>
    /\ stack' = <<>>
    /\ sopt' = NoSort
    /\ call' = [call EXCEPT !.compared = TRUE]
    /\ UNCHANGED itervars

\* A callback of the running sort has the control: the key function on the
\* next element, or a less-than callback that is the caller's own code
InCallback ==
    \/ spc = "keys" /\ sopt.key # None /\ Len(keys) < Len(values)
    \/ /\ spc = "quicksort" /\ stack # <<>>
       /\ Top.at = "loop" /\ Top.i < Top.hi - 1
       /\ sopt.lt = "any"

\* What a call made by a callback leaves behind: the list holds els, and the
\* sort's record says whether the list was changed by any such call
Reentrant(els) ==
    /\ Len(els) <= MaxAdded
    /\ elements' = els
    /\ call' = [call EXCEPT !.touched = @ \/ els # elements]
    /\ UNCHANGED <<result, sortvars>>
    /\ UNCHANGED itervars

\* The callback calls append, insert, extend, pop or clear on the list that is
\* being sorted
CallbackAppend(x) == InCallback /\ Reentrant(append(elements, x))

CallbackInsert(position, x) == InCallback /\ Reentrant(insert(elements, position, x))

CallbackExtend(sec) == InCallback /\ Reentrant(extend(elements, sec).els)

CallbackPop(i) == InCallback /\ Reentrant(pop(elements, i).els)

CallbackClear == InCallback /\ Reentrant(clear(elements))

\* PyList::iter and PyList::reversed: a new iterator
Iter ==
    /\ Idle
    /\ iter_position' = Some(0)
    /\ call' = [op |-> "iter"]
    /\ result' = Ok
    /\ UNCHANGED <<elements, sortvars, reversed_position>>

Reversed ==
    /\ Idle
    /\ reversed_position' = Some(Len(elements))
    /\ call' = [op |-> "reversed"]
    /\ result' = Ok
    /\ UNCHANGED <<elements, sortvars, iter_position>>

\* One step of each iterator; pos is the position it held before the step
IterNext ==
    /\ Idle
    /\ iter_position # None
    /\ call' = [op |-> "next", pos |-> iter_position[1]]
    /\ result' = iter_next(elements, iter_position[1]).res
    /\ iter_position' = Some(iter_next(elements, iter_position[1]).position)
    /\ UNCHANGED <<elements, sortvars, reversed_position>>

ReversedNext ==
    /\ Idle
    /\ reversed_position # None
    /\ call' = [op |-> "reversed_next", pos |-> reversed_position[1]]
    /\ result' = reversed_next(elements, reversed_position[1]).res
    /\ reversed_position' = Some(reversed_next(elements, reversed_position[1]).position)
    /\ UNCHANGED <<elements, sortvars, iter_position>>

IterLengthHint(overflow_checks) ==
    /\ Idle
    /\ iter_position # None
    /\ call' = [op |-> "length_hint"]
    /\ result' = iter_length_hint(elements, iter_position[1], overflow_checks)
    /\ UNCHANGED <<elements, sortvars, itervars>>

ReversedLengthHint ==
    /\ Idle
    /\ reversed_position # None
    /\ call' = [op |-> "reversed_length_hint"]
    /\ result' = reversed_length_hint(elements, reversed_position[1])
    /\ UNCHANGED <<elements, sortvars, itervars>>

\* The structural operations, called on a list no sort of which is running
ListAppend(x) ==
    /\ Idle
    /\ Len(elements) < MaxLen
    /\ elements' = append(elements, x)
    /\ call' = [op |-> "append", old |-> elements, x |-> x]
    /\ result' = Ok
    /\ UNCHANGED <<sortvars, itervars>>

ListExtend(sec) ==
    /\ Idle
    /\ Len(elements) + Len(sec.items) <= MaxLen
    /\ elements' = extend(elements, sec).els
    /\ call' = [op |-> "extend", old |-> elements, sec |-> sec]
    /\ result' = extend(elements, sec).res
    /\ UNCHANGED <<sortvars, itervars>>

ListInsert(position, element) ==
    /\ Idle
    /\ Len(elements) < MaxLen
    /\ elements' = insert(elements, position, element)
    /\ call' = [op |-> "insert", old |-> elements, position |-> position,
                element |-> element]
    /\ result' = Ok
    /\ UNCHANGED <<sortvars, itervars>>

ListClear ==
    /\ Idle
    /\ elements' = clear(elements)
    /\ call' = [op |-> "clear", old |-> elements]
    /\ result' = Ok
    /\ UNCHANGED <<sortvars, itervars>>

ListPop(i) ==
    /\ Idle
    /\ elements' = pop(elements, i).els
    /\ call' = [op |-> "pop", old |-> elements, i |-> i]
    /\ result' = pop(elements, i).res
    /\ UNCHANGED <<sortvars, itervars>>

ListIndex(needle) ==
    /\ Idle
    /\ call' = [op |-> "index", old |-> elements, needle |-> needle]
    /\ result' = index_of(elements, needle)
    /\ UNCHANGED <<elements, sortvars, itervars>>

ListRemove(needle) ==
    /\ Idle
    /\ elements' = remove(elements, needle).els
    /\ call' = [op |-> "remove", old |-> elements, needle |-> needle]
    /\ result' = remove(elements, needle).res
    /\ UNCHANGED <<sortvars, itervars>>

ListSetIndex(index, value) ==
    /\ Idle
    /\ elements' = setindex(elements, index, value).els
    /\ call' = [op |-> "setindex", old |-> elements, index |-> index, value |-> value]
    /\ result' = setindex(elements, index, value).res
    /\ UNCHANGED <<sortvars, itervars>>

ListDelIndex(index) ==
    /\ Idle
    /\ elements' = delindex(elements, index).els
    /\ call' = [op |-> "delindex", old |-> elements, index |-> index]
    /\ result' = delindex(elements, index).res
    /\ UNCHANGED <<sortvars, itervars>>

\* setslice up to the call of its helper: the step, the bounds and the range
\* are taken from the slice; a zero step returns at once
SetSliceBegin(start, stop, step, sec) ==
    /\ Idle
    /\ \E t \in {setslice_target(Len(elements), start, stop, step)} :
           /\ call' = [op |-> "setslice_consume", old |-> elements, sec |-> sec,
                       target |-> t, now |-> <<>>]
           /\ spc' = IF t.fn = "none" THEN "idle" ELSE "consume"
           /\ result' = IF t.fn = "none" THEN ZeroStepError ELSE Pending
    /\ UNCHANGED <<elements, values, keys, stack, sopt, itervars>>

\* The source is being consumed (sec.iter(vm)?.collect()): its iteration
\* makes a call on the list that is being assigned to, which leaves it as els
ConsumeCallback(els) ==
    /\ spc = "consume"
    /\ Len(els) <= MaxLen
    /\ elements' = els
    /\ UNCHANGED <<call, result, sortvars, itervars>>

\* The source is consumed: the helper checks the number of items and writes
\* the store
SetSliceEnd ==
    /\ spc = "consume"
    /\ \E out \in {set_target(elements, call.target, call.sec)} :
           /\ Len(out.els) <= MaxLen
           /\ elements' = out.els
           /\ result' = out.res
    /\ call' = [call EXCEPT !.op = "setslice_written", !.now = elements]
    /\ spc' = "idle"
    /\ UNCHANGED <<values, keys, stack, sopt, itervars>>

StrDoSlice(s, range, overflow_checks) ==
    /\ Idle
    /\ call' = [op |-> "do_slice", s |-> s, range |-> range, step |-> 1,
                overflow_checks |-> overflow_checks]
    /\ result' = do_slice(s, range, overflow_checks)
    /\ UNCHANGED <<elements, sortvars, itervars>>

StrDoSliceReverse(s, range, overflow_checks) ==
    /\ Idle
    /\ call' = [op |-> "do_slice_reverse", s |-> s, range |-> range, step |-> 1,
                overflow_checks |-> overflow_checks]
    /\ result' = do_slice_reverse(s, range, overflow_checks)
    /\ UNCHANGED <<elements, sortvars, itervars>>

StrDoSteppedSlice(s, range, step, overflow_checks) ==
    /\ Idle
    /\ call' = [op |-> "do_stepped_slice", s |-> s, range |-> range, step |-> step,
                overflow_checks |-> overflow_checks]
    /\ result' = do_stepped_slice(s, range, step, overflow_checks)
    /\ UNCHANGED <<elements, sortvars, itervars>>

StrDoSteppedSliceReverse(s, range, step, overflow_checks) ==
    /\ Idle
    /\ call' = [op |-> "do_stepped_slice_reverse", s |-> s, range |-> range, step |-> step,
                overflow_checks |-> overflow_checks]
    /\ result' = do_stepped_slice_reverse(s, range, step, overflow_checks)
    /\ UNCHANGED <<elements, sortvars, itervars>>

\* The guard Idle of every call is repeated in front of the quantifiers, so
\* that the inputs are only enumerated in the states where a call can start.
NextResolve ==
    \/ Idle /\ \E p \in RawIndexes : GetPos(p)
    \/ Idle /\ \E b \in RawBounds : GetSlicePos(b)
    \/ Idle /\ \E start \in OptBounds, stop \in OptBounds : GetSliceRange(start, stop)
    \/ Return

SpecResolve == Init /\ [][NextResolve]_vars

NextSetSlice ==
    \/ Idle /\ \E start \in SliceBounds, stop \in SliceBounds,
                   step \in SliceSteps, sec \in Sources :
                    SetSlice(start, stop, step, sec)
    \/ Return

SpecSetSlice == Init /\ [][NextSetSlice]_vars

NextDelSlice ==
    \/ Idle /\ \E start \in SliceBounds, stop \in SliceBounds, step \in SliceSteps :
                    DelSlice(start, stop, step)
    \/ Return

SpecDelSlice == Init /\ [][NextDelSlice]_vars

\* Slice assignment and slice deletion, in any order
SpecSlice == Init /\ [][NextSetSlice \/ NextDelSlice]_vars

NextSort ==
    \/ Idle /\ \E key \in SortKeys, rev \in BOOLEAN, ltkind \in LtKinds :
                    SortBegin(key, rev, ltkind)
    \/ KeysCopy
    \/ KeyCall
    \/ KeysDone
    \/ Quicksort
    \/ PartitionBegin
    \/ \E below \in BOOLEAN : Compare(below)
    \/ PartitionEnd
    \/ SortRight
    \/ QuicksortReturn
    \/ SortEnd
    \/ KeyFail
    \/ LtFail
    \/ InCallback /\ \E x \in CallbackVals : CallbackAppend(x)
    \/ InCallback /\ \E position \in CallbackIndexes, x \in CallbackVals :
                        CallbackInsert(position, x)
    \/ InCallback /\ \E sec \in CallbackSources : CallbackExtend(sec)
    \/ InCallback /\ \E i \in {None} \cup {Some(p) : p \in CallbackIndexes} : CallbackPop(i)
    \/ InCallback /\ CallbackClear
    \/ Return

SpecSort == Init /\ [][NextSort]_vars

\* Fairness on the steps of the running sort itself. The sort runs on the
\* caller's thread to its end, and a callback that returns hands the control
\* back: no sort stays for ever at a step it can take.
SpecSortFair ==
    /\ SpecSort
    /\ WF_vars(\/ KeysCopy
               \/ KeyCall
               \/ KeysDone
               \/ Quicksort
               \/ PartitionBegin
               \/ \E below \in BOOLEAN : Compare(below)
               \/ PartitionEnd
               \/ SortRight
               \/ QuicksortReturn
               \/ SortEnd)

\* The structural operations and the steps of the two iterators, in any order
NextIter ==
    \/ Iter
    \/ Reversed
    \/ IterNext
    \/ ReversedNext
    \/ \E overflow_checks \in BOOLEAN : IterLengthHint(overflow_checks)
    \/ ReversedLengthHint
    \/ Idle /\ \E x \in Vals : ListAppend(x)
    \/ Idle /\ \E sec \in Sources : ListExtend(sec)
    \/ Idle /\ \E position \in RawIndexes, element \in Vals : ListInsert(position, element)
    \/ ListClear
    \/ Idle /\ \E i \in {None} \cup {Some(p) : p \in RawIndexes} : ListPop(i)
    \/ Idle /\ \E needle \in Vals : ListIndex(needle)
    \/ Idle /\ \E needle \in Vals : ListRemove(needle)
    \/ Idle /\ \E index \in RawIndexes, value \in Vals : ListSetIndex(index, value)
    \/ Idle /\ \E index \in RawIndexes : ListDelIndex(index)
    \/ Return

SpecIter == Init /\ [][NextIter]_vars

\* Slice assignment through the consumption of its source
NextSetSliceConsume ==
    \/ Idle /\ \E start \in SliceBounds, stop \in SliceBounds,
                   step \in SliceSteps, sec \in Sources :
                    SetSliceBegin(start, stop, step, sec)
    \/ spc = "consume" /\ \E x \in CallbackVals : ConsumeCallback(append(elements, x))
    \/ ConsumeCallback(pop(elements, None).els)
    \/ ConsumeCallback(clear(elements))
    \/ SetSliceEnd
    \/ Return

SpecSetSliceConsume == Init /\ [][NextSetSliceConsume]_vars

\* The slice functions of String, on any string of up to MaxLen chars, any
\* range with bounds up to MaxLen + 1 and any step up to MaxStep + 1
NextStr ==
    \/ Idle /\ \E s \in Lists, a, b \in 0..(MaxLen + 1), oc \in BOOLEAN :
                   StrDoSlice(s, Range(a, b), oc)
    \/ Idle /\ \E s \in Lists, a, b \in 0..(MaxLen + 1), oc \in BOOLEAN :
                   StrDoSliceReverse(s, Range(a, b), oc)
    \/ Idle /\ \E s \in Lists, a, b \in 0..(MaxLen + 1), step \in 0..(MaxStep + 1),
                   oc \in BOOLEAN : StrDoSteppedSlice(s, Range(a, b), step, oc)
    \/ Idle /\ \E s \in Lists, a, b \in 0..(MaxLen + 1), step \in 0..(MaxStep + 1),
                   oc \in BOOLEAN : StrDoSteppedSliceReverse(s, Range(a, b), step, oc)
    \/ Return

\* A string is no part of a list: the slice functions are followed from the
\* state with the empty list
InitStr == Init /\ elements = <<>>

SpecStr == InitStr /\ [][NextStr]_vars

\* The whole list: every call and every step of a running sort
Next ==
    \/ NextResolve
    \/ NextSetSlice
    \/ NextSetSliceConsume
    \/ NextDelSlice
    \/ NextSort
    \/ NextIter
    \/ NextStr

Spec == Init /\ [][Next]_vars

----------------------------------------------------------------------------
(* Index and slice resolution: properties *)

InRange(n, b) == b.big = 0 /\ -n <= b.v /\ b.v < n
FrontCounted(n, b) == IF b.v >= 0 THEN b.v ELSE n + b.v

C3_Original ==
    call.op = "get_slice_range" =>
        /\ result.start \in 0..Len(elements)
        /\ result.end \in 0..Len(elements)
        /\ result.start <= result.end

\* C3, amended. Both ends of every range of get_slice_range are in [0, n], and
\* start <= stop whenever one of the two bounds is absent; with both bounds
\* given the range is the two resolved bounds as they are, start > stop
\* included.
C3_RangeEnds ==
    call.op = "get_slice_range" =>
        LET n == Len(elements)
        IN  /\ result.start \in 0..n
            /\ result.end \in 0..n
            /\ (call.start = None \/ call.stop = None) => result.start <= result.end
            /\ (call.start # None /\ call.stop # None) =>
                   /\ InRange(n, call.start[1]) => result.start = FrontCounted(n, call.start[1])
                   /\ InRange(n, call.stop[1]) => result.end = FrontCounted(n, call.stop[1])

C3_Witness ==
    /\ call.op = "get_slice_range"
    /\ call.start # None
    /\ call.stop = None
    /\ result.start > 0
    /\ result.start < result.end

----------------------------------------------------------------------------
(* Slice assignment: properties *)

Max(a, b) == IF a >= b THEN a ELSE b

\* The last call was a slice assignment whose source was consumed to its end
Assigned == call.op = "setslice" /\ ~call.sec.fails
\* ... with step 1
AssignedUnit == Assigned /\ call.step = Big(1)
\* ... with a step other than 1 (and other than 0)
AssignedStepped == Assigned /\ call.step # Big(1) /\ ~is_zero(call.step)

\* ceil((stop - start) / |step|) when stop > start, else 0; a step outside
\* i32 is larger than every range
SliceLength(range, step) ==
    IF range.end <= range.start THEN 0
    ELSE IF step.big # 0 THEN 1
    ELSE LET m == IF step.v < 0 THEN -step.v ELSE step.v
         IN  (range.end - range.start + m - 1) \div m

\* The k-th position of the traversal of the slice, counted from 1
TraversalPos(range, step, k) ==
    IF k = 1 THEN (IF is_negative(step) THEN range.end - 1 ELSE range.start)
    ELSE IF is_negative(step) THEN range.end - 1 + (k - 1) * step.v
    ELSE range.start + (k - 1) * step.v

Traversal(range, step) ==
    [k \in 1..SliceLength(range, step) |-> TraversalPos(range, step, k)]

\* C4. Unit-step assignment over the resolved range [start, stop) with
\* replacement v leaves old[0..start] ++ v ++ old[stop..], an empty range
\* being an insertion at start; the length becomes
\* old length - max(stop - start, 0) + len(v) and positions
\* [start, start + len(v)) read back v.
C4_UnitSplice ==
    AssignedUnit =>
        LET old == call.old
            v == call.sec.items
            s == call.range.start
            e == Max(call.range.end, s)
        IN  /\ result = Ok
            /\ elements = SubSeq(old, 1, s) \o v \o SubSeq(old, e + 1, Len(old))
            /\ Len(elements) = Len(old) - Max(call.range.end - s, 0) + Len(v)
            /\ SubSeq(elements, s + 1, s + Len(v)) = v

C4_Witness ==
    /\ AssignedUnit
    /\ call.range.start < call.range.end
    /\ call.range.end < Len(call.old)
    /\ Len(call.sec.items) >= 1
    /\ Len(call.sec.items) # call.range.end - call.range.start
    /\ elements # call.old

\* C5. An assignment with a step other than 1 over a non-empty resolved range
\* whose replacement has not the slice length ceil((stop - start) / |step|)
\* fails with the size-mismatch ValueError and leaves the list as it was.
C5_SteppedSizeMismatch ==
    (/\ AssignedStepped
     /\ call.range.start < call.range.end
     /\ Len(call.sec.items) # SliceLength(call.range, call.step))
        => (result = SizeMismatchError /\ elements = call.old)

C5_Witness ==
    /\ AssignedStepped
    /\ is_negative(call.step)
    /\ call.range.end - call.range.start >= 3
    /\ Len(call.sec.items) = 1
    /\ SliceLength(call.range, call.step) = 2
    /\ result = SizeMismatchError

\* C6 as stated: an assignment with a step other than 1 never changes the
\* length of the list, and a non-empty replacement assigned to an empty
\* stepped slice is rejected with the size-mismatch error.
C6_Original ==
    AssignedStepped =>
        /\ Len(elements) = Len(call.old)
        /\ (call.range.start >= call.range.end /\ Len(call.sec.items) > 0)
               => result = SizeMismatchError

\* C7 as stated: after a successful assignment with a step other than 1 the
\* k-th replacement element is at the k-th position of the traversal and
\* every other position keeps its element.
C7_Original ==
    (AssignedStepped /\ result = Ok) =>
        LET old == call.old
            v == call.sec.items
            t == Traversal(call.range, call.step)
        IN  /\ Len(elements) = Len(old)
            /\ Len(v) = Len(t)
            /\ \A k \in 1..Len(t) : elements[t[k] + 1] = v[k]
            /\ \A i \in 1..Len(old) :
                   (\A k \in 1..Len(t) : t[k] + 1 # i) => elements[i] = old[i]

\* C8. When the replacement source fails, the assignment fails (with the
\* source's error, unless the step is 0 and the source is never consumed) and
\* the list is as before the call.
C8_SourceFailure ==
    (call.op = "setslice" /\ call.sec.fails) =>
        /\ elements = call.old
        /\ result = IF is_zero(call.step) THEN ZeroStepError ELSE SourceError

C8_Witness ==
    /\ call.op = "setslice"
    /\ call.sec.fails
    /\ Len(call.sec.items) = 1
    /\ call.range.start < call.range.end
    /\ result = SourceError

----------------------------------------------------------------------------
(* Slice deletion: properties *)

\* seq without the elements at the (0-based) positions in S, from position i on
RECURSIVE Without(_, _, _)
Without(seq, S, i) ==
    IF i > Len(seq) THEN <<>>
    ELSE (IF (i - 1) \in S THEN <<>> ELSE <<seq[i]>>) \o Without(seq, S, i + 1)

Selected(range, step) ==
    {TraversalPos(range, step, k) : k \in 1..SliceLength(range, step)}

\* The positions a slice denotes on a list of length n, by the language's
\* rule: an absent bound is the end the traversal starts from or runs to, a
\* negative bound has n added, and the bound is then clamped to [0, n] for a
\* positive step and to [-1, n - 1] for a negative one.
SliceBound(n, bound, absent, lo, hi) ==
    IF bound = None THEN absent
    ELSE LET b == bound[1]
         IN  IF b.big = 1 THEN hi
             ELSE IF b.big = -1 THEN lo
             ELSE LET w == IF b.v < 0 THEN b.v + n ELSE b.v
                  IN  IF w < lo THEN lo ELSE IF w > hi THEN hi ELSE w

SlicePositions(n, start, stop, step) ==
    IF is_positive(step)
    THEN LET s == SliceBound(n, start, 0, 0, n)
             e == SliceBound(n, stop, n, 0, n)
         IN  {i \in 0..(n - 1) :
                 /\ s <= i /\ i < e
                 /\ (i = s \/ (step.big = 0 /\ (i - s) % step.v = 0))}
    ELSE LET s == SliceBound(n, start, n - 1, -1, n - 1)
             e == SliceBound(n, stop, -1, -1, n - 1)
         IN  {i \in 0..(n - 1) :
                 /\ e < i /\ i <= s
                 /\ (i = s \/ (step.big = 0 /\ (s - i) % (-step.v) = 0))}

\* The last call was a slice deletion with |step| > 1
DeletedStepped ==
    /\ call.op = "delslice"
    /\ ~is_zero(call.step)
    /\ call.step # Big(1)
    /\ call.step # Big(-1)

\* C9. After a deletion with |step| > 1, forward or reverse, the list is the
\* old list without exactly the positions the slice selects, every other
\* element in its old relative order, and it is shorter by the slice length.
C9_SteppedDeletion ==
    DeletedStepped =>
        LET sel == SlicePositions(Len(call.old), call.start, call.stop, call.step)
        IN  /\ result = Ok
            /\ sel = Selected(call.range, call.step)
            /\ elements = Without(call.old, sel, 1)
            /\ Len(elements) = Len(call.old) - SliceLength(call.range, call.step)

C9_Witness ==
    /\ DeletedStepped
    /\ call.step = Big(-2)
    /\ SliceLength(call.range, call.step) = 2
    /\ Len(call.old) = 3
    /\ elements = <<call.old[2]>>

----------------------------------------------------------------------------
(* Sort: properties *)

\* The sort key of element x under the key option of the last call
KeyOf(x) == IF call.key = None THEN x ELSE call.key[1][x]

\* The last call was a sort that has returned
Sorted == call.op = "sort" /\ spc = "idle"

\* C10. With a less-than callback that is the order of the keys, and no
\* callback failing or touching the list, sort leaves the elements in
\* non-decreasing order of their keys, and in non-increasing order when
\* reverse is set.
C10_SortOrder ==
    (Sorted /\ call.lt = "order" /\ ~call.touched /\ result # KeyFuncError) =>
        /\ result = Ok
        /\ Len(elements) = Len(call.old)
        /\ \A i \in 1..Len(elements), j \in 1..Len(elements) :
               i < j => IF call.reverse
                        THEN KeyOf(elements[i]) >= KeyOf(elements[j])
                        ELSE KeyOf(elements[i]) <= KeyOf(elements[j])

C10_Witness ==
    /\ Sorted
    /\ call.lt = "order"
    /\ ~call.touched
    /\ result = Ok
    /\ call.key # None
    /\ ~call.reverse
    /\ Len(elements) = 3
    /\ KeyOf(elements[1]) < KeyOf(elements[3])
    /\ elements # call.old

----------------------------------------------------------------------------
(* Sort and its callbacks: properties *)

\* The number of times v occurs in seq, and a and b holding the same elements
\* the same number of times
Count(seq, v) == Cardinality({i \in 1..Len(seq) : seq[i] = v})
PermutationOf(a, b) ==
    /\ Len(a) = Len(b)
    /\ \A v \in Vals \cup CallbackVals : Count(a, v) = Count(b, v)

\* els is in the order the sort was asked for
InKeyOrder(els) ==
    \A i \in 1..Len(els), j \in 1..Len(els) :
        i < j => IF call.reverse
                 THEN KeyOf(els[i]) >= KeyOf(els[j])
                 ELSE KeyOf(els[i]) <= KeyOf(els[j])

\* C11. A sort during which a callback changed the list, and in which no
\* callback failed, returns the "list modified during sort" error, also when
\* the callback's changes left the list empty again (append, then pop or
\* clear).
C11_Original ==
    (Sorted /\ call.touched /\ result \notin {KeyFuncError, LtError}) =>
        result = ModifiedError

\* C12. When the list is not empty at the moment the sorted store is put back
\* (a callback added elements and none failed), sort returns the "list
\* modified during sort" error, and the list then holds the elements it had
\* when the sort began, in sorted order: what the callbacks added is gone.
C12_ApplyThenError ==
    [][(spc = "quicksort" /\ stack = <<>> /\ elements # <<>>) =>
           /\ spc' = "idle"
           /\ result' = ModifiedError
           /\ PermutationOf(elements', call.old)
           /\ call.lt = "order" => InKeyOrder(elements')]_vars

C12_Witness ==
    /\ Sorted
    /\ result = ModifiedError
    /\ call.lt = "order"
    /\ call.key # None
    /\ Len(elements) = 3
    /\ elements # call.old
    /\ \A i \in 1..3 : elements[i] \in Vals

\* C13. Whatever the outcome of sort, failure of a callback included, the
\* list holds the elements it had when the sort began once sort has returned.
C13_Original ==
    Sorted => PermutationOf(elements, call.old)

\* C14. A sort that returns the key function's failure has made no
\* comparison, and leaves in the list only what the callbacks put there:
\* nothing when no callback changed the list.
C14_KeyFailure ==
    (Sorted /\ result = KeyFuncError) =>
        /\ ~call.compared
        /\ \A i \in 1..Len(elements) : elements[i] \in CallbackVals
        /\ ~call.touched => elements = <<>>

C14_Witness ==
    /\ Sorted
    /\ result = KeyFuncError
    /\ call.touched
    /\ elements # <<>>
    /\ Len(call.old) >= 2
    /\ \A i \in 1..Len(call.old) : call.old[i] \in Vals

----------------------------------------------------------------------------
(* Iterators: properties *)

\* C15. A forward iterator starts at position 0. Each of its steps, taken
\* between any calls that change the list, returns the element the list holds
\* at the iterator's position at that moment and moves the position on by one;
\* it signals exhaustion exactly when the position is at or past the length
\* of the list at that moment, and then leaves the position as it is, so that
\* elements appended later are still returned.
C15_ForwardCursor ==
    /\ call.op = "iter" => iter_position = Some(0)
    /\ call.op = "next" =>
           IF call.pos < Len(elements)
           THEN /\ result = Returned(elements[call.pos + 1])
                /\ iter_position = Some(call.pos + 1)
           ELSE /\ result = Raised(StopIteration)
                /\ iter_position = Some(call.pos)

C15_Witness ==
    /\ call.op = "next"
    /\ call.pos = 2
    /\ Len(elements) = 3
    /\ result = Returned(elements[3])
    /\ elements[3] # elements[2]

\* The number of further steps of each iterator that return an element, on a
\* list that is not changed again
RECURSIVE IterStepsLeft(_, _)
IterStepsLeft(els, pos) ==
    LET step == iter_next(els, pos)
    IN  IF step.res.ok THEN 1 + IterStepsLeft(els, step.position) ELSE 0

RECURSIVE ReversedStepsLeft(_, _)
ReversedStepsLeft(els, pos) ==
    LET step == reversed_next(els, pos)
    IN  IF step.res.ok THEN 1 + ReversedStepsLeft(els, step.position) ELSE 0

\* C16. Whatever calls changed the list since the iterator was made, the
\* length hint of a forward and of a reverse iterator is the number of
\* further steps that would return an element if the list were left alone:
\* for the forward iterator the length less the position, and 0 when the
\* position is at or past the length.
C16_Original ==
    /\ call.op = "length_hint" =>
           /\ result = Returned(IterStepsLeft(elements, iter_position[1]))
           /\ result = Returned(IF iter_position[1] >= Len(elements) THEN 0
                                ELSE Len(elements) - iter_position[1])
    /\ call.op = "reversed_length_hint" =>
           result = Returned(ReversedStepsLeft(elements, reversed_position[1]))

\* C17. Every step of a forward or of a reverse iterator, whatever calls
\* changed the list before it, returns the element the list holds at a
\* position below its length, or signals exhaustion.
C17_Original ==
    call.op \in {"next", "reversed_next"} =>
        LET at == IF call.op = "next" THEN call.pos ELSE call.pos - 1
        IN  IF result.ok
            THEN 0 <= at /\ at < Len(elements) /\ result.val = elements[at + 1]
            ELSE result = Raised(StopIteration)

----------------------------------------------------------------------------
(* Structural operations: properties *)

Clamp(x, lo, hi) == IF x < lo THEN lo ELSE IF x > hi THEN hi ELSE x

\* C18. insert(p, x) on a list of length n succeeds for every p, and puts x at
\* position clamp(p if p >= 0 else n + p, 0, n): the elements before that
\* position stay, those from it on move back by one, the length is n + 1.
C18_Insert ==
    call.op = "insert" =>
        LET n == Len(call.old)
            p == call.position
            at == Clamp(IF p >= 0 THEN p ELSE n + p, 0, n)
        IN  /\ result = Ok
            /\ Len(elements) = n + 1
            /\ elements[at + 1] = call.element
            /\ \A k \in 1..at : elements[k] = call.old[k]
            /\ \A k \in (at + 1)..n : elements[k + 1] = call.old[k]

C18_Witness ==
    /\ call.op = "insert"
    /\ call.position = -1
    /\ Len(call.old) = 2
    /\ call.old[1] # call.element
    /\ elements = <<call.old[1], call.element, call.old[2]>>

\* C19. pop() removes and returns the last element; pop(i) removes and
\* returns the element at the position get_pos gives for i, the others
\* keeping their order. It fails, with one of the two IndexErrors and the
\* list as it was, exactly when the list is empty or get_pos gives no
\* position for i.
C19_Pop ==
    call.op = "pop" =>
        LET n == Len(call.old)
            at == get_pos(n, IF call.i = None THEN -1 ELSE call.i[1])
        IN  /\ (call.i = None /\ n > 0) => result = Returned(call.old[n])
            /\ IF n = 0 \/ at = None
               THEN /\ ~result.ok
                    /\ result.val \in {PopEmptyError, PopRangeError}
                    /\ elements = call.old
               ELSE /\ result = Returned(call.old[at[1] + 1])
                    /\ Len(elements) = n - 1
                    /\ \A k \in 1..at[1] : elements[k] = call.old[k]
                    /\ \A k \in (at[1] + 1)..(n - 1) : elements[k] = call.old[k + 1]

C19_Witness ==
    /\ call.op = "pop"
    /\ call.i = Some(-2)
    /\ Len(call.old) = 3
    /\ call.old[1] # call.old[2]
    /\ result = Returned(call.old[2])
    /\ elements = <<call.old[1], call.old[3]>>

\* C20. extend appends the elements of a source that ends, in order; of a
\* source that raises after giving k elements, it appends those k elements.
C20_Original ==
    call.op = "extend" =>
        /\ elements = call.old \o call.sec.items
        /\ result = IF call.sec.fails THEN SourceError ELSE Ok

----------------------------------------------------------------------------
(* Slices: further properties *)

\* C22. Slice assignment and slice deletion with step 0 fail with the
\* zero-step ValueError and leave the list as it was, whatever the start, the
\* stop and the replacement.
C22_ZeroStep ==
    (call.op \in {"setslice", "delslice"} /\ is_zero(call.step)) =>
        /\ result = ZeroStepError
        /\ elements = call.old

C22_Witness ==
    /\ call.op = "delslice"
    /\ is_zero(call.step)
    /\ call.start = Some(Big(0))
    /\ call.stop = Some(Big(2))
    /\ result = ZeroStepError
    /\ Len(elements) = 3

\* The positions, counted from 0, of the elements of seq equal to v
Matches(seq, v) == {i \in 0..(Len(seq) - 1) : seq[i + 1] = v}

\* C23. remove(needle) deletes the element equal to the needle at the lowest
\* position and keeps the others in order, and index(needle) returns that
\* position; when no element is equal to the needle, both fail with the
\* not-in-list ValueError and the list is as it was.
C23_RemoveIndex ==
    call.op \in {"remove", "index"} =>
        LET n == Len(call.old)
            M == Matches(call.old, call.needle)
        IN  IF M = {}
            THEN /\ elements = call.old
                 /\ call.op = "remove" => result = NotInListError
                 /\ call.op = "index" => result = Raised(NotInListError)
            ELSE LET k == CHOOSE i \in M : \A j \in M : i <= j
                 IN  /\ call.op = "index" =>
                            result = Returned(k) /\ elements = call.old
                     /\ call.op = "remove" =>
                            /\ result = Ok
                            /\ Len(elements) = n - 1
                            /\ \A j \in 1..k : elements[j] = call.old[j]
                            /\ \A j \in (k + 1)..(n - 1) : elements[j] = call.old[j + 1]

C23_Witness ==
    /\ call.op = "remove"
    /\ Len(call.old) = 3
    /\ Cardinality(Matches(call.old, call.needle)) = 2
    /\ call.old[2] # call.needle
    /\ elements = <<call.old[2], call.needle>>

----------------------------------------------------------------------------
(* Reverse slices and steps outside i32: properties *)

\* The descending traversal s, s - |step|, s - 2|step|, ... while > e of a
\* slice with a negative step on a list of length n: s is the start (n - 1
\* when absent) and e the stop (-1 when absent), a negative one with n added,
\* both clamped to [-1, n - 1]. A step outside i32 passes every list.
RECURSIVE Descend(_, _, _)
Descend(s, e, m) ==
    IF s <= e THEN <<>>
    ELSE IF m = 0 THEN <<s>>
    ELSE <<s>> \o Descend(s - m, e, m)

DescendingTraversal(n, start, stop, step) ==
    Descend(SliceBound(n, start, n - 1, -1, n - 1),
            SliceBound(n, stop, -1, -1, n - 1),
            IF step.big = 0 THEN -step.v ELSE 0)

SeqRange(seq) == {seq[k] : k \in 1..Len(seq)}

\* The last call was a slice deletion, or a slice assignment that succeeded,
\* with a negative step
ReverseDeleted == call.op = "delslice" /\ is_negative(call.step)
ReverseAssigned == call.op = "setslice" /\ is_negative(call.step) /\ result = Ok

\* C24. With a negative step, slice deletion removes exactly the positions of
\* the descending traversal, and a slice assignment that succeeds stores the
\* k-th replacement element at the k-th position of that traversal and
\* touches no other; the ascending range resolved from the transformed
\* bounds covers those positions.
C24_Original ==
    /\ ReverseDeleted =>
           LET t == DescendingTraversal(Len(call.old), call.start, call.stop, call.step)
           IN  /\ SeqRange(t) = Selected(call.range, call.step)
               /\ elements = Without(call.old, SeqRange(t), 1)
    /\ ReverseAssigned =>
           LET t == DescendingTraversal(Len(call.old), call.bounds[1], call.bounds[2],
                                        call.step)
               v == call.sec.items
           IN  /\ SeqRange(t) = Selected(call.range, call.step)
               /\ Len(elements) = Len(call.old)
               /\ Len(v) = Len(t)
               /\ \A k \in 1..Len(t) : elements[t[k] + 1] = v[k]
               /\ \A i \in 1..Len(call.old) :
                      (i - 1) \notin SeqRange(t) => elements[i] = call.old[i]

\* The same, for steps that fit i32 only
C24_WithinI32 ==
    (call.op \in {"setslice", "delslice"} /\ call.step.big = 0) => C24_Original

----------------------------------------------------------------------------
(* Sort: further properties *)

\* C25. Whenever sort returns without the failure of a callback, with Ok or
\* with the "list modified during sort" error, the list holds the elements it
\* had when the sort began, each as many times: for every less-than callback,
\* also one that answers without any order, and whatever the callbacks did to
\* the list meanwhile.
C25_SortPermutation ==
    (Sorted /\ result \in {Ok, ModifiedError}) => PermutationOf(elements, call.old)

C25_Witness ==
    /\ Sorted
    /\ call.lt = "any"
    /\ call.key = None
    /\ ~call.reverse
    /\ call.touched
    /\ result = ModifiedError
    /\ Len(elements) = 3
    /\ elements # call.old
    /\ elements[1] > elements[2]

\* C26. While the keys are being taken no comparison has been made and no
\* element has moved, and the keys taken so far are those of the first
\* elements in their original order, one call of the key function each; once
\* the sort proper runs, the key table is as long as the list was when the
\* sort began, and key i is that of element i (the element itself without a
\* key function).
C26_KeyExtraction ==
    /\ spc = "keys" =>
           /\ ~call.compared
           /\ values = call.old
           /\ Len(keys) <= Len(values)
           /\ \A i \in 1..Len(keys) : keys[i] = KeyOf(call.old[i])
    /\ spc = "sort" =>
           /\ ~call.compared
           /\ values = call.old
    /\ spc \in {"sort", "quicksort"} =>
           /\ Len(keys) = Len(call.old)
           /\ Len(values) = Len(call.old)
           /\ \A i \in 1..Len(keys) : keys[i] = KeyOf(values[i])

C26_Witness ==
    /\ spc = "sort"
    /\ call.key # None
    /\ Len(values) = 3
    /\ keys[1] # keys[3]
    /\ keys # values

\* The quicksort calls in progress: each but the outermost has a window inside
\* that of its caller, without the caller's pivot, hence strictly smaller
NestedWindows ==
    \A d \in 2..Len(stack) :
        LET outer == stack[d - 1]
            inner == stack[d]
        IN  /\ outer.hi - outer.lo >= 2
            /\ outer.lo <= outer.store /\ outer.store < outer.hi
            /\ \/ outer.at = "left" /\ inner.lo = outer.lo /\ inner.hi = outer.store
               \/ outer.at = "right" /\ inner.lo = outer.store + 1 /\ inner.hi = outer.hi

\* C27. A running sort returns, whatever the less-than callback answers, as
\* long as every callback returns; every quicksort call in progress works on
\* a window strictly inside its caller's, on one side of the caller's pivot,
\* and the calls in progress are never more than the elements (one call, for
\* a list of fewer than two).
C27_SortTerminates ==
    /\ [](NestedWindows /\ Len(stack) <= Max(Len(values), 1))
    /\ (spc # "idle") ~> (spc = "idle")

C27_Witness ==
    /\ spc = "quicksort"
    /\ sopt.lt = "any"
    /\ Len(values) = 3
    /\ Len(stack) = 3
    /\ Top.hi - Top.lo = 1

----------------------------------------------------------------------------
(* String slices: properties *)

\* The last call was a slice function of String on a range inside the string
\* and a step of at least one
StrSliced(op) ==
    /\ call.op = op
    /\ call.range.start <= call.range.end
    /\ call.range.end <= Len(call.s)
    /\ call.step >= 1

\* The number of positions start, start + step, ... below stop
StepCount(start, stop, step) == (stop - start + step - 1) \div step

\* The chars of s at start, start + step, ... below stop
AscendingChars(s, start, stop, step) ==
    [k \in 1..StepCount(start, stop, step) |-> s[start + (k - 1) * step + 1]]

\* The chars of s at stop - 1, stop - 1 - step, ... not below start
DescendingChars(s, start, stop, step) ==
    [k \in 1..StepCount(start, stop, step) |-> s[stop - 1 - (k - 1) * step + 1]]

\* C28. On a range start..stop with start <= stop <= length and a step of at
\* least one: do_stepped_slice gives the chars at start, start + step, ...
\* below stop, in that order; do_stepped_slice_reverse gives the chars at
\* stop - 1, stop - 1 - step, ... not below start, in that order;
\* do_slice_reverse gives the reversal of what do_slice gives; with step 1 the
\* stepped functions give what the unstepped ones give; and do_slice_reverse
\* on the whole string gives the string reversed.
C28_StrSlices ==
    LET s == call.s
        range == call.range
        oc == call.overflow_checks
    IN  /\ StrSliced("do_stepped_slice") =>
            /\ result = Returned(AscendingChars(s, range.start, range.end, call.step))
            /\ call.step = 1 => result = do_slice(s, range, oc)
        /\ StrSliced("do_stepped_slice_reverse") =>
            /\ result = Returned(DescendingChars(s, range.start, range.end, call.step))
            /\ call.step = 1 => result = do_slice_reverse(s, range, oc)
        /\ StrSliced("do_slice") =>
            result = Returned(SubSeq(s, range.start + 1, range.end))
        /\ StrSliced("do_slice_reverse") =>
            /\ do_slice(s, range, oc).ok
            /\ result = Returned(chars_rev(do_slice(s, range, oc).val))
            /\ (range.start = 0 /\ range.end = Len(s)) =>
                   result = Returned([k \in 1..Len(s) |-> s[Len(s) + 1 - k]])

C28_Witness ==
    /\ StrSliced("do_stepped_slice_reverse")
    /\ call.step = 2
    /\ call.s = <<1, 2, 1>>
    /\ call.range = Range(0, 2)
    /\ result = Returned(<<2>>)

----------------------------------------------------------------------------
(* Slice assignment and the callbacks of its source: properties *)

\* The last call was a slice assignment that went on to write the store: the
\* source gave its items with no failure, and for a stepped slice as many
\* as the slice has positions
Written ==
    /\ call.op = "setslice_written"
    /\ ~call.sec.fails
    /\ call.target.fn # "_set_slice" =>
           /\ call.target.range.start < call.target.range.end
           /\ Len(call.sec.items) = slicelen(call.target.range, call.target.step)

\* One past the last position the write addresses
Reach ==
    IF call.target.fn = "_set_slice" THEN call.target.range.end
    ELSE LET at == target_indexes(call.target, call.sec.items)
         IN  IF at = <<>> THEN 0
             ELSE 1 + CHOOSE m \in {at[k] : k \in 1..Len(at)} :
                          \A k \in 1..Len(at) : at[k] <= m

\* C29. A slice assignment whose source changed the list while it was consumed
\* writes only positions the list has when the write is made: the write ends
\* with no panic, and it addresses no position at or past the length the list
\* has by then.
C29_Original ==
    Written => /\ Reach <= Len(call.now)
               /\ result \notin {SplicePanic, IndexPanic}

\* With a source that leaves the list alone, the assignment followed through
\* the consumption of its source is the assignment of setslice
ConsumeAgrees ==
    (call.op = "setslice_written" /\ call.now = call.old) =>
        \E start \in SliceBounds, stop \in SliceBounds, step \in SliceSteps :
            /\ setslice_target(Len(call.old), start, stop, step) = call.target
            /\ setslice(call.old, start, stop, step, call.sec) = Out(elements, result)

----------------------------------------------------------------------------
(* Steps outside i32: properties *)

\* The last call was a slice assignment whose source was consumed to its end,
\* or a slice deletion, with a step outside i32
HugeAssigned == Assigned /\ call.step.big # 0
HugeDeleted == call.op = "delslice" /\ call.step.big # 0

\* The first position of the traversal of a non-empty resolved range
FirstPosition ==
    IF is_positive(call.step) THEN call.range.start ELSE call.range.end - 1

\* C30. With a step outside i32 the slice is the first position of the
\* traversal when the resolved range is non-empty and no position when it is
\* empty. A deletion removes that position, or nothing. An assignment of one
\* element to a non-empty range stores it at that position; an assignment of
\* no element to an empty range changes nothing; every other assignment is
\* rejected with the size-mismatch error and changes nothing.
C30_Original ==
    /\ HugeDeleted =>
           /\ result = Ok
           /\ call.range.start < call.range.end =>
                  elements = Without(call.old, {FirstPosition}, 1)
           /\ call.range.start >= call.range.end => elements = call.old
    /\ HugeAssigned =>
           LET n == Len(call.sec.items)
               len == IF call.range.start < call.range.end THEN 1 ELSE 0
           IN  /\ n # len => result = SizeMismatchError /\ elements = call.old
               /\ (n = len /\ len = 0) => result = Ok /\ elements = call.old
               /\ (n = len /\ len = 1) =>
                      /\ result = Ok
                      /\ elements = [call.old EXCEPT ![FirstPosition + 1] = call.sec.items[1]]

====
